---------------------------- MODULE Spec2Model ----------------------------
(***************************************************************************)
(* State-machine model of src/main.py (WindowsStockMonitor).               *)
(*                                                                         *)
(* One foreground context (the Tk main loop, which runs the button and     *)
(* window-close callbacks) and the worker threads that start_monitoring    *)
(* creates with threading.Thread(target=self.monitoring_loop).             *)
(*                                                                         *)
(* start_monitoring, stop_monitoring and on_closing are modelled as calls  *)
(* the foreground may issue whenever it is in the main loop; the button    *)
(* states are tracked as state but are not used to restrict the calls.     *)
(*                                                                         *)
(* The worker calls Tk from a thread that is not the main thread.  What    *)
(* such a call does depends on the Tcl build: with a threaded Tcl the call *)
(* is handed to the main thread and waits until the main loop services it; *)
(* with a non-threaded Tcl it runs directly.  The build is chosen          *)
(* nondeterministically in Init (threadedTcl).                             *)
(***************************************************************************)
EXTENDS Integers, Sequences, FiniteSets, TLC

(* ------------------------------ bounds -------------------------------- *)
MaxStarts == 2
MaxCycles == 2
MaxAppends == 52
FeedLen == 4

(* ------------------------- program constants -------------------------- *)
Attempts == 3
HistoryCap == 50

VARIABLES
  running,        \* self.running
  thresholds,     \* self.thresholds : symbol -> {'upper','lower'}
  data,           \* self.data : symbol -> rows (timestamp, price)
  alerts_list,    \* self.alerts_list (Listbox rows)
  status_var,     \* self.status_var
  start_button,   \* state of self.start_button
  stop_button,    \* state of self.stop_button
  chart,          \* what update_chart last drew on self.ax
  symbol_entry,   \* text of self.symbol_entry
  interval_var,   \* text of self.interval_var
  thread,         \* self.thread (0: the attribute does not exist yet)
  pc,             \* position of each worker thread in monitoring_loop
  loc,            \* locals of each worker thread
  fgpc,           \* position of the foreground
  destroyed,      \* root.destroy() has run
  threadedTcl,    \* the Tcl build hands cross-thread calls to the main loop
  cycles,         \* number of loop iterations begun (bounded by MaxCycles)
  appended,       \* history of every row ever appended, per symbol
  feed,           \* provider responses, in call order
  fetched,        \* result of the last fetch_price applied to feed
  email_config,   \* self.email_config (FALSE: None)
  log,            \* the entries written through self.logger
  validated       \* the symbol the last accepted start_monitoring validated

vars == <<running, thresholds, data, alerts_list, status_var, start_button,
          stop_button, chart, symbol_entry, interval_var, thread, pc, loc,
          fgpc, destroyed, threadedTcl, cycles, appended, feed, fetched,
          email_config, log, validated>>

uiVars == <<alerts_list, status_var, start_button, stop_button, chart>>
inputVars == <<symbol_entry, interval_var>>
pureVars == <<feed, fetched>>
mailVars == <<email_config, log>>

(* ------------------------------ values -------------------------------- *)
ThreadIds == 1..MaxStarts
Symbols == {"A", "B"}
SymbolTexts == {"", "a", "B"}
IntervalTexts == {"60", "abc"}
\* Threshold numerals, provider prices (positive) and provider timestamps:
\* a price above and one below the non-zero numeral.
Nums == {0, 2}
Prices == {1, 3}
Timestamps == {1, 2}

\* Python's None and a float, as one record shape.
None == [some |-> FALSE, v |-> 0]
Some(n) == [some |-> TRUE, v |-> n]

\* Python truthiness of an Optional[float]: None and 0.0 are falsy.
Truthy(x) == x.some /\ x.v # 0

\* The text of a threshold entry: empty, a numeral, or anything else.
EmptyText == [kind |-> "empty", v |-> 0]
BadText == [kind |-> "text", v |-> 0]
NumText(n) == [kind |-> "num", v |-> n]
ThresholdTexts == {EmptyText, BadText} \cup {NumText(n) : n \in Nums}

\* str.upper() on the symbol texts.
Upper(s) == IF s = "a" THEN "A" ELSE s

\* int(self.interval_var.get()) succeeds.
IsInt(s) == s = "60"

\* "float(entry.get()) if entry.get() else None" raises ValueError.
ValueError(t) == t.kind = "text"

\* float(entry.get()) if entry.get() else None, when it does not raise.
ParseThreshold(t) == IF t.kind = "empty" THEN None ELSE Some(t.v)

NoThresholds == [present |-> FALSE, upper |-> None, lower |-> None]

\* self.thresholds.get(symbol, {}).get(key)
GetUpper(s) == IF thresholds[s].present THEN thresholds[s].upper ELSE None
GetLower(s) == IF thresholds[s].present THEN thresholds[s].lower ELSE None

Point(ts, p) == [timestamp |-> ts, price |-> p]
Points == {Point(ts, p) : ts \in Timestamps, p \in Prices}

\* One provider response: get_intraday raises (or the frame cannot be
\* parsed), the frame is empty, or the frame's first row is a point.
Raises == [kind |-> "raise", timestamp |-> 0, price |-> 0]
EmptyFrame == [kind |-> "empty", timestamp |-> 0, price |-> 0]
Row(pt) == [kind |-> "row", timestamp |-> pt.timestamp, price |-> pt.price]
Responses == {Raises, EmptyFrame} \cup {Row(pt) : pt \in Points}

StatusIdle == [kind |-> "Idle", symbol |-> "", price |-> 0]
StatusMonitoring(s, p) == [kind |-> "Monitoring", symbol |-> s, price |-> p]

NoChart == [symbol |-> "", series |-> <<>>, upper |-> None, lower |-> None]

NoLocals == [symbol |-> "", timestamp |-> None, price |-> None,
             upper |-> None, lower |-> None]

Alive(t) == pc[t] \notin {"unborn", "dead"}


(* --------------------------- pure functions --------------------------- *)

\* The last n elements of a sequence: DataFrame.tail(n).
TailN(s, n) == IF Len(s) <= n THEN s ELSE SubSeq(s, Len(s) - n + 1, Len(s))

\* Mutant of ConcatTail: the first 50 rows are kept (head instead of tail).
ConcatHead(rows, pt) ==
  IF Len(rows) < HistoryCap THEN Append(rows, pt) ELSE rows

\* pd.concat([self.data[symbol], new_data]).tail(50)
ConcatTail(rows, pt) == TailN(Append(rows, pt), HistoryCap)

\* Result of fetch_price: the returned pair, and what the call did.
FetchResult(ts, p, calls, logged, slept, raised) ==
  [timestamp |-> ts, price |-> p, calls |-> calls, logged |-> logged,
   slept |-> slept, raised |-> raised]

NotFetched == FetchResult(None, None, 0, 0, 0, FALSE)

\* The body of "for _ in range(3)" from attempt i on; f[i] is the provider's
\* response to the i-th call.
RECURSIVE FetchAttempt(_, _, _, _)

\* Mutant of FetchAttempt: no try/except, the provider's error propagates.
FetchAttemptUncaught(f, i, logged, slept) ==
  IF i > Attempts
    THEN FetchResult(None, None, i - 1, logged, slept, FALSE)
    ELSE IF f[i].kind = "row"
      THEN FetchResult(Some(f[i].timestamp), Some(f[i].price), i, logged,
                       slept, FALSE)
      ELSE IF f[i].kind = "raise"
        THEN FetchResult(None, None, i, logged, slept, TRUE)
        ELSE FetchAttempt(f, i + 1, logged, slept)

FetchAttempt(f, i, logged, slept) ==
  IF i > Attempts
    THEN FetchResult(None, None, i - 1, logged, slept, FALSE)
    ELSE IF f[i].kind = "row"
      THEN FetchResult(Some(f[i].timestamp), Some(f[i].price), i, logged,
                       slept, FALSE)
      ELSE IF f[i].kind = "raise"
        THEN FetchAttempt(f, i + 1, logged + 1, slept + 1)
        ELSE FetchAttempt(f, i + 1, logged, slept)

fetch_price(f) == FetchAttempt(f, 1, 0, 0)

\* Mutant of AfterFetch: the result is used without the "if price:" test.
AfterFetchUnchecked(price) == "append"

\* The branch update_data and monitoring_loop take on "if price:".
AfterFetch(price) == IF Truthy(price) THEN "append" ELSE "sleep"

\* The validation of start_monitoring: "accepted", or the error it shows.
Validate(symbol, u, l) ==
  IF symbol = ""
    THEN "no symbol"
    ELSE IF ValueError(u) \/ ValueError(l)
      THEN "not numbers"
      ELSE IF /\ Truthy(ParseThreshold(u))
              /\ Truthy(ParseThreshold(l))
              /\ ParseThreshold(u).v <= ParseThreshold(l).v
        THEN "upper <= lower"
        ELSE "accepted"

\* "if upper and price > upper" / "if lower and price < lower"
UpperFires(price, upper) == Truthy(upper) /\ price > upper.v
LowerFires(price, lower) == Truthy(lower) /\ price < lower.v

\* n copies of entry e.
Repeat(e, n) == [i \in 1..n |-> e]

\* lines 147-167: what send_email_alert logs and whether it raises, given
\* self.email_config and whether the SMTP session succeeds.
send_email_alert(config, delivered) ==
  IF ~config
    THEN [log |-> <<>>, raised |-> FALSE]
    ELSE IF delivered
      THEN [log |-> <<"INFO email sent">>, raised |-> FALSE]
      ELSE [log |-> <<"ERROR email failed">>, raised |-> FALSE]

Alert(symbol, kind, price, bound) ==
  [symbol |-> symbol, kind |-> kind, price |-> price, bound |-> bound]


(* ------------------------------- Init --------------------------------- *)

\* The fields set by __init__ and setup_gui; no thread exists yet.
InitProgram ==
  /\ running = FALSE
  /\ thresholds = [s \in Symbols |-> NoThresholds]
  /\ data = [s \in Symbols |-> <<>>]
  /\ alerts_list = <<>>
  /\ status_var = StatusIdle
  /\ start_button = "normal"
  /\ stop_button = "disabled"
  /\ chart = NoChart
  /\ symbol_entry = ""
  /\ interval_var = "60"
  /\ thread = 0
  /\ pc = [t \in ThreadIds |-> "unborn"]
  /\ loc = [t \in ThreadIds |-> NoLocals]
  /\ fgpc = "mainloop"
  /\ destroyed = FALSE
  /\ cycles = 0
  /\ appended = [s \in Symbols |-> <<>>]
  /\ email_config = FALSE
  /\ log = <<>>
  /\ validated = ""

Init ==
  /\ InitProgram
  /\ threadedTcl \in BOOLEAN
  /\ feed = <<>>
  /\ fetched = NotFetched

(* -------------------------- worker thread ----------------------------- *)

\* A Tk call made by a worker thread can complete: with a threaded Tcl only
\* while the main thread is servicing its event loop.
TkOk == threadedTcl => fgpc = "mainloop"

\* line 229: symbol = self.symbol_entry.get().upper()
ReadSymbol(t) ==
  /\ pc[t] = "readSymbol"
  /\ TkOk
  /\ loc' = [loc EXCEPT ![t].symbol = Upper(symbol_entry)]
  /\ pc' = [pc EXCEPT ![t] = "readInterval"]
  /\ UNCHANGED <<running, thresholds, data, uiVars, inputVars, thread, fgpc,
                 destroyed, threadedTcl, cycles, appended, pureVars, mailVars, validated>>

\* line 230: interval = int(self.interval_var.get()); a ValueError ends the
\* thread.
ReadInterval(t) ==
  /\ pc[t] = "readInterval"
  /\ TkOk
  /\ IF IsInt(interval_var)
       THEN /\ pc' = [pc EXCEPT ![t] = "while"]
            /\ loc' = loc
       ELSE /\ pc' = [pc EXCEPT ![t] = "dead"]
            /\ loc' = [loc EXCEPT ![t] = NoLocals]
  /\ UNCHANGED <<running, thresholds, data, uiVars, inputVars, thread, fgpc,
                 destroyed, threadedTcl, cycles, appended, pureVars, mailVars, validated>>

\* line 232: while self.running and symbol
LoopTest(t) ==
  /\ pc[t] = "while"
  /\ IF running /\ loc[t].symbol # ""
       THEN /\ cycles < MaxCycles
            /\ cycles' = cycles + 1
            /\ pc' = [pc EXCEPT ![t] = "fetch"]
       ELSE /\ cycles' = cycles
            /\ pc' = [pc EXCEPT ![t] = "exitStatus"]
  /\ UNCHANGED <<running, thresholds, data, uiVars, inputVars, thread, loc,
                 fgpc, destroyed, threadedTcl, appended, pureVars, mailVars, validated>>

\* lines 171-172: timestamp, price = self.fetch_price(symbol); if price:
\* R is the set of responses the provider may give.
Fetch(t, R) ==
  /\ pc[t] = "fetch"
  /\ \E f \in [1..Attempts -> R] :
       LET r == fetch_price(f) IN
         /\ loc' = [loc EXCEPT ![t].timestamp = r.timestamp,
                               ![t].price = r.price]
         /\ pc' = [pc EXCEPT ![t] = AfterFetch(r.price)]
         /\ log' = log \o Repeat("ERROR fetch", r.logged)
  /\ UNCHANGED <<running, thresholds, data, uiVars, inputVars, thread, fgpc,
                 destroyed, threadedTcl, cycles, appended, pureVars,
                 email_config, validated>>

\* lines 173-180: append the row, keep the last 50, read the thresholds.
AppendRow(t) ==
  /\ pc[t] = "append"
  /\ LET sym == loc[t].symbol
         pt == Point(loc[t].timestamp.v, loc[t].price.v)
     IN /\ data' = [data EXCEPT ![sym] = ConcatTail(@, pt)]
        /\ appended' = [appended EXCEPT ![sym] = Append(@, pt)]
        /\ loc' = [loc EXCEPT ![t].upper = GetUpper(sym),
                              ![t].lower = GetLower(sym)]
  /\ pc' = [pc EXCEPT ![t] = "upper"]
  /\ UNCHANGED <<running, thresholds, uiVars, inputVars, thread, fgpc,
                 destroyed, threadedTcl, cycles, pureVars, mailVars, validated>>

\* lines 182-186
CheckUpper(t) ==
  /\ pc[t] = "upper"
  /\ IF UpperFires(loc[t].price.v, loc[t].upper)
       THEN /\ TkOk
            /\ alerts_list' = Append(alerts_list,
                 Alert(loc[t].symbol, "UPPER", loc[t].price.v, loc[t].upper.v))
            /\ \E delivered \in BOOLEAN :
                 LET mail == send_email_alert(email_config, delivered) IN
                   /\ log' = (log \o <<"INFO alert">>) \o mail.log
                   /\ IF mail.raised
                        THEN /\ pc' = [pc EXCEPT ![t] = "dead"]
                             /\ loc' = [loc EXCEPT ![t] = NoLocals]
                        ELSE /\ pc' = [pc EXCEPT ![t] = "lower"]
                             /\ loc' = loc
       ELSE /\ alerts_list' = alerts_list
            /\ log' = log
            /\ pc' = [pc EXCEPT ![t] = "lower"]
            /\ loc' = loc
  /\ UNCHANGED <<running, thresholds, data, status_var, start_button,
                 stop_button, chart, inputVars, thread, fgpc, destroyed,
                 threadedTcl, cycles, appended, pureVars, email_config,
                 validated>>

\* lines 188-194
CheckLower(t) ==
  /\ pc[t] = "lower"
  /\ IF LowerFires(loc[t].price.v, loc[t].lower)
       THEN /\ TkOk
            /\ alerts_list' = Append(alerts_list,
                 Alert(loc[t].symbol, "LOWER", loc[t].price.v, loc[t].lower.v))
            /\ \E delivered \in BOOLEAN :
                 LET mail == send_email_alert(email_config, delivered) IN
                   /\ log' = (log \o <<"INFO alert">>) \o mail.log
                   /\ IF mail.raised
                        THEN /\ pc' = [pc EXCEPT ![t] = "dead"]
                             /\ loc' = [loc EXCEPT ![t] = NoLocals]
                        ELSE /\ pc' = [pc EXCEPT ![t] = "status"]
                             /\ loc' = loc
       ELSE /\ alerts_list' = alerts_list
            /\ log' = log
            /\ pc' = [pc EXCEPT ![t] = "status"]
            /\ loc' = loc
  /\ UNCHANGED <<running, thresholds, data, status_var, start_button,
                 stop_button, chart, inputVars, thread, fgpc, destroyed,
                 threadedTcl, cycles, appended, pureVars, email_config,
                 validated>>

\* Mutant of SetStatus: the chart is not redrawn after the status is set.
SetStatusSkipsChart(t) ==
  /\ pc[t] = "status"
  /\ TkOk
  /\ status_var' = StatusMonitoring(loc[t].symbol, loc[t].price.v)
  /\ pc' = [pc EXCEPT ![t] = "sleep"]
  /\ UNCHANGED <<running, thresholds, data, alerts_list, start_button,
                 stop_button, chart, inputVars, thread, loc, fgpc, destroyed,
                 threadedTcl, cycles, appended, pureVars, mailVars, validated>>

\* lines 234-235: self.status_var.set(f"Status: Monitoring {symbol} - ...")
SetStatus(t) ==
  /\ pc[t] = "status"
  /\ TkOk
  /\ status_var' = StatusMonitoring(loc[t].symbol, loc[t].price.v)
  /\ pc' = [pc EXCEPT ![t] = "chart"]
  /\ UNCHANGED <<running, thresholds, data, alerts_list, start_button,
                 stop_button, chart, inputVars, thread, loc, fgpc, destroyed,
                 threadedTcl, cycles, appended, pureVars, mailVars, validated>>

\* line 236 and update_chart (lines 197-225)
UpdateChart(t) ==
  /\ pc[t] = "chart"
  /\ LET sym == loc[t].symbol IN
       IF data[sym] = <<>>
         THEN chart' = chart
         ELSE /\ TkOk
              /\ chart' = [symbol |-> sym, series |-> data[sym],
                           upper |-> IF Truthy(GetUpper(sym))
                                       THEN GetUpper(sym) ELSE None,
                           lower |-> IF Truthy(GetLower(sym))
                                       THEN GetLower(sym) ELSE None]
  /\ pc' = [pc EXCEPT ![t] = "sleep"]
  /\ UNCHANGED <<running, thresholds, data, alerts_list, status_var,
                 start_button, stop_button, inputVars, thread, loc, fgpc,
                 destroyed, threadedTcl, cycles, appended, pureVars, mailVars, validated>>

\* line 237: time.sleep(interval); the iteration's values are dropped.
Sleep(t) ==
  /\ pc[t] = "sleep"
  /\ pc' = [pc EXCEPT ![t] = "while"]
  /\ loc' = [loc EXCEPT ![t] = [NoLocals EXCEPT !.symbol = loc[t].symbol]]
  /\ UNCHANGED <<running, thresholds, data, uiVars, inputVars, thread, fgpc,
                 destroyed, threadedTcl, cycles, appended, pureVars, mailVars, validated>>

\* line 239: self.status_var.set("Status: Idle")
ExitStatus(t) ==
  /\ pc[t] = "exitStatus"
  /\ TkOk
  /\ status_var' = StatusIdle
  /\ pc' = [pc EXCEPT ![t] = "exitStart"]
  /\ UNCHANGED <<running, thresholds, data, alerts_list, start_button,
                 stop_button, chart, inputVars, thread, loc, fgpc, destroyed,
                 threadedTcl, cycles, appended, pureVars, mailVars, validated>>

\* line 240: self.start_button.config(state='normal')
ExitStart(t) ==
  /\ pc[t] = "exitStart"
  /\ TkOk
  /\ start_button' = "normal"
  /\ pc' = [pc EXCEPT ![t] = "exitStop"]
  /\ UNCHANGED <<running, thresholds, data, alerts_list, status_var,
                 stop_button, chart, inputVars, thread, loc, fgpc, destroyed,
                 threadedTcl, cycles, appended, pureVars, mailVars, validated>>

\* line 241: self.stop_button.config(state='disabled'); the thread ends.
ExitStop(t) ==
  /\ pc[t] = "exitStop"
  /\ TkOk
  /\ stop_button' = "disabled"
  /\ pc' = [pc EXCEPT ![t] = "dead"]
  /\ loc' = [loc EXCEPT ![t] = NoLocals]
  /\ UNCHANGED <<running, thresholds, data, alerts_list, status_var,
                 start_button, chart, inputVars, thread, fgpc, destroyed,
                 threadedTcl, cycles, appended, pureVars, mailVars, validated>>

monitoring_loop(t, R) ==
  \/ ReadSymbol(t)
  \/ ReadInterval(t)
  \/ LoopTest(t)
  \/ Fetch(t, R)
  \/ AppendRow(t)
  \/ CheckUpper(t)
  \/ CheckLower(t)
  \/ SetStatus(t)
  \/ UpdateChart(t)
  \/ Sleep(t)
  \/ ExitStatus(t)
  \/ ExitStart(t)
  \/ ExitStop(t)


(* ---------------------------- foreground ------------------------------ *)

Created == Cardinality({t \in ThreadIds : pc[t] # "unborn"})

\* Mutant of MustStop: start_monitoring never stops the running session.
MustStopNever == FALSE

\* line 261: if self.running:
MustStop == running

\* Mutant of JoinDone: stop_monitoring does not wait for the thread.
JoinNoWait == TRUE

\* lines 273-274: the join has returned (or there is no thread to join).
JoinDone == IF thread = 0 THEN TRUE ELSE pc[thread] = "dead"

\* lines 263-268: set the flag and the buttons, create and start the thread.
Launch ==
  /\ running' = TRUE
  /\ start_button' = "disabled"
  /\ stop_button' = "normal"
  /\ thread' = Created + 1
  /\ pc' = [pc EXCEPT ![Created + 1] = "readSymbol"]

\* The user types into the symbol entry.
EditSymbol(s) ==
  /\ fgpc = "mainloop"
  /\ s # symbol_entry
  /\ symbol_entry' = s
  /\ UNCHANGED <<running, thresholds, data, uiVars, interval_var, thread, pc,
                 loc, fgpc, destroyed, threadedTcl, cycles, appended,
                 pureVars, mailVars, validated>>

\* The user types into (or picks from) the interval combobox.
EditInterval(v) ==
  /\ fgpc = "mainloop"
  /\ v # interval_var
  /\ interval_var' = v
  /\ UNCHANGED <<running, thresholds, data, uiVars, symbol_entry, thread, pc,
                 loc, fgpc, destroyed, threadedTcl, cycles, appended,
                 pureVars, mailVars, validated>>

\* lines 102-131: the user fills the email dialog and presses Save.
configure_email ==
  /\ fgpc = "mainloop"
  /\ email_config' = TRUE
  /\ UNCHANGED <<running, thresholds, data, uiVars, inputVars, thread, pc,
                 loc, fgpc, destroyed, threadedTcl, cycles, appended,
                 pureVars, log, validated>>

\* lines 243-268, up to the join of line 274 when a session is running; u and
\* l are the texts of the upper and lower entries.
start_monitoring(u, l) ==
  /\ fgpc = "mainloop"
  /\ LET symbol == Upper(symbol_entry) IN
       IF Validate(symbol, u, l) # "accepted"
         THEN UNCHANGED vars
         ELSE /\ Created < MaxStarts
              /\ thresholds' = [thresholds EXCEPT ![symbol] =
                   [present |-> TRUE, upper |-> ParseThreshold(u),
                    lower |-> ParseThreshold(l)]]
              /\ IF MustStop
                   THEN /\ running' = FALSE
                        /\ fgpc' = "startJoin"
                        /\ UNCHANGED <<start_button, stop_button, thread, pc>>
                   ELSE /\ Launch
                        /\ fgpc' = fgpc
              /\ validated' = symbol
              /\ UNCHANGED <<data, alerts_list, status_var, chart, inputVars,
                             loc, destroyed, threadedTcl, cycles, appended,
                             pureVars, mailVars>>

\* start_monitoring resumes at line 263 once stop_monitoring has returned.
StartResume ==
  /\ fgpc = "startJoin"
  /\ JoinDone
  /\ Launch
  /\ fgpc' = "mainloop"
  /\ UNCHANGED <<thresholds, data, alerts_list, status_var, chart, inputVars,
                 loc, destroyed, threadedTcl, cycles, appended, pureVars, mailVars, validated>>

\* lines 270-274, called from the stop button: clear the flag, enter join.
stop_monitoring ==
  /\ fgpc = "mainloop"
  /\ running' = FALSE
  /\ fgpc' = "stopJoin"
  /\ UNCHANGED <<thresholds, data, uiVars, inputVars, thread, pc, loc,
                 destroyed, threadedTcl, cycles, appended, pureVars, mailVars, validated>>

\* stop_monitoring returns to the main loop.
StopReturn ==
  /\ fgpc = "stopJoin"
  /\ JoinDone
  /\ fgpc' = "mainloop"
  /\ UNCHANGED <<running, thresholds, data, uiVars, inputVars, thread, pc,
                 loc, destroyed, threadedTcl, cycles, appended, pureVars, mailVars, validated>>

\* lines 276-278: on_closing calls stop_monitoring.
on_closing ==
  /\ fgpc = "mainloop"
  /\ running' = FALSE
  /\ fgpc' = "closeJoin"
  /\ UNCHANGED <<thresholds, data, uiVars, inputVars, thread, pc, loc,
                 destroyed, threadedTcl, cycles, appended, pureVars, mailVars, validated>>

\* line 279: self.root.destroy(), once stop_monitoring has returned.
CloseDestroy ==
  /\ fgpc = "closeJoin"
  /\ JoinDone
  /\ destroyed' = TRUE
  /\ fgpc' = "closed"
  /\ UNCHANGED <<running, thresholds, data, uiVars, inputVars, thread, pc,
                 loc, threadedTcl, cycles, appended, pureVars, mailVars, validated>>

\* Inputs of the session-lifecycle specification: every kind of threshold
\* text, one numeral, and a provider that answers with an empty frame or with
\* one and the same point.
LifeTexts == {EmptyText, BadText, NumText(2)}
LifeResponses == {EmptyFrame, Row(Point(1, 3))}

\* The provider of the data-path specification never raises; the provider of
\* the notification specification does.
DataResponses == Responses \ {Raises}
MailResponses == {Raises, EmptyFrame, Row(Point(1, 3))}
MailTexts == {EmptyText, NumText(0), NumText(2)}

Next ==
  \/ \E s \in SymbolTexts : EditSymbol(s)
  \/ \E v \in IntervalTexts : EditInterval(v)
  \/ \E u \in LifeTexts, l \in LifeTexts : start_monitoring(u, l)
  \/ StartResume
  \/ stop_monitoring
  \/ StopReturn
  \/ on_closing
  \/ CloseDestroy
  \/ \E t \in ThreadIds : monitoring_loop(t, LifeResponses)

Spec == Init /\ [][Next]_vars

\* The data-path specification: one symbol, every threshold text and every
\* row the provider can give.
NextData ==
  \/ \E s \in {"", "a"} : EditSymbol(s)
  \/ \E u \in ThresholdTexts, l \in ThresholdTexts : start_monitoring(u, l)
  \/ StartResume
  \/ stop_monitoring
  \/ StopReturn
  \/ \E t \in ThreadIds : monitoring_loop(t, DataResponses)

SpecData == Init /\ [][NextData]_vars

\* The notification specification: one symbol, an unset, a zero and a non-zero
\* bound, the email configuration and both outcomes of the SMTP session.
NextMail ==
  \/ \E s \in {"", "a"} : EditSymbol(s)
  \/ configure_email
  \/ \E u \in MailTexts, l \in MailTexts : start_monitoring(u, l)
  \/ StartResume
  \/ stop_monitoring
  \/ StopReturn
  \/ \E t \in ThreadIds : monitoring_loop(t, MailResponses)

SpecMail == Init /\ [][NextMail]_vars


(* ------------------- fetch_price on its own --------------------------- *)

\* The provider's responses are fixed in advance; fetch_price is applied once.
InitFetch ==
  /\ InitProgram
  /\ threadedTcl = FALSE
  /\ feed \in [1..FeedLen -> Responses]
  /\ fetched = NotFetched

\* lines 133-145 applied to the provider's responses.
ApplyFetch ==
  /\ fetched = NotFetched
  /\ fetched' = fetch_price(feed)
  /\ UNCHANGED <<running, thresholds, data, uiVars, inputVars, thread, pc,
                 loc, fgpc, destroyed, threadedTcl, cycles, appended, feed,
                 mailVars, validated>>

SpecFetch == InitFetch /\ [][ApplyFetch]_vars

(* ------------------- the history on its own --------------------------- *)

\* Rows only: every cycle obtains a price.  The provider repeats feed.
InitHistory ==
  /\ InitProgram
  /\ threadedTcl = FALSE
  /\ feed \in [1..FeedLen -> {Row(pt) : pt \in Points}]
  /\ fetched = NotFetched

\* lines 173-177 for the next row the provider gives, for symbol s.
HistoryAppend(s) ==
  /\ \A o \in Symbols \ {s} : appended[o] = <<>>
  /\ Len(appended[s]) < MaxAppends
  /\ LET r == feed[(Len(appended[s]) % FeedLen) + 1]
         pt == Point(r.timestamp, r.price)
     IN /\ data' = [data EXCEPT ![s] = ConcatTail(@, pt)]
        /\ appended' = [appended EXCEPT ![s] = Append(@, pt)]
  /\ UNCHANGED <<running, thresholds, uiVars, inputVars, thread, pc, loc,
                 fgpc, destroyed, threadedTcl, cycles, pureVars, mailVars, validated>>

NextHistory == \E s \in Symbols : HistoryAppend(s)

SpecHistory == InitHistory /\ [][NextHistory]_vars

(* ----------------------------- fairness ------------------------------- *)

\* Every thread that can take a step eventually takes one, and so does the
\* foreground once the thread it joins has ended.
FairSpec ==
  /\ Spec
  /\ \A t \in ThreadIds : WF_vars(monitoring_loop(t, LifeResponses))
  /\ WF_vars(StartResume)
  /\ WF_vars(StopReturn)
  /\ WF_vars(CloseDestroy)


(* ------------------------------ claims -------------------------------- *)

JoinPcs == {"startJoin", "stopJoin", "closeJoin"}

\* C1: in every reachable state at most one monitoring thread is alive; a
\* start_monitoring issued while running is true launches the new thread only
\* after the previous one has ended.
AtMostOneCycle == Cardinality({t \in ThreadIds : Alive(t)}) <= 1

\* start_monitoring was called while thread 1 was in its loop, and the join
\* is over: thread 1 has ended and thread 2 is about to be launched.
RestartJoined ==
  /\ fgpc = "startJoin"
  /\ thread = 1
  /\ pc[1] = "dead"
  /\ cycles >= 1

\* stop_monitoring (from the button or from on_closing) has returned and no
\* start_monitoring has succeeded since.
StopHasReturned == ~running /\ fgpc \in {"mainloop", "closed"}

\* C2: from the return of stop_monitoring until the next successful
\* start_monitoring no thread moves, no row is appended, no alert is added
\* and the status text and the chart are not written.
QuietAfterStop ==
  [][(StopHasReturned /\ ~running') =>
       UNCHANGED <<pc, loc, cycles, data, appended, alerts_list, status_var,
                   chart>>]_vars

\* A session that appended a row and published a price was stopped, and
\* stop_monitoring has returned to the main loop.
StoppedAfterWork ==
  /\ StopHasReturned
  /\ fgpc = "mainloop"
  /\ thread # 0
  /\ data["A"] # <<>>
  /\ status_var = StatusIdle

\* C3: every stop_monitoring call eventually returns: the foreground does not
\* stay in the join of line 274 for ever.
StopEventuallyReturns == (fgpc = "stopJoin") ~> (fgpc = "mainloop")

\* The inputs that the validation is meant to reject: no symbol, a threshold
\* text that is not a number, or two numbers with upper <= lower.
MustReject(symbol, u, l) ==
  \/ symbol = ""
  \/ u.kind = "text"
  \/ l.kind = "text"
  \/ (u.kind = "num" /\ l.kind = "num" /\ u.v <= l.v)

\* C4: a start_monitoring call whose input must be rejected changes nothing:
\* not the flag, the thresholds, the history, the buttons or the threads.
RejectedStartMutatesNothing ==
  [][\A u \in ThresholdTexts, l \in ThresholdTexts :
       (start_monitoring(u, l) /\ MustReject(Upper(symbol_entry), u, l)) =>
         UNCHANGED <<running, thresholds, data, start_button, stop_button,
                     thread, pc>>]_vars

\* C5: every thresholds entry that has both bounds has upper > lower.
UpperAboveLower ==
  \A s \in Symbols :
    (thresholds[s].present /\ thresholds[s].upper.some
       /\ thresholds[s].lower.some)
      => thresholds[s].upper.v > thresholds[s].lower.v

AddsAlert(kind) ==
  /\ Len(alerts_list') = Len(alerts_list) + 1
  /\ alerts_list'[Len(alerts_list')].kind = kind

\* C6: the threshold step of update_data adds an UPPER alert exactly when an
\* upper bound is configured and price > upper, and a LOWER alert exactly
\* when a lower bound is configured and price < lower.
AlertIffCrossed ==
  [][\A t \in ThreadIds :
       /\ (pc[t] = "upper" /\ pc'[t] = "lower") =>
            (AddsAlert("UPPER") <=>
               (loc[t].upper.some /\ loc[t].price.v > loc[t].upper.v))
       /\ (pc[t] = "lower" /\ pc'[t] = "status") =>
            (AddsAlert("LOWER") <=>
               (loc[t].lower.some /\ loc[t].price.v < loc[t].lower.v))]_vars

\* The number of failed responses before the first row of f.
RECURSIVE LeadingFailures(_, _)
LeadingFailures(f, i) ==
  IF i > Len(f) \/ f[i].kind = "row" THEN i - 1 ELSE LeadingFailures(f, i + 1)

ReturnsRow(k) ==
  /\ fetched.timestamp = Some(feed[k + 1].timestamp)
  /\ fetched.price = Some(feed[k + 1].price)
  /\ fetched.calls = k + 1

\* C7 as stated: after k <= 3 failures followed by a success fetch_price
\* returns the success value, having retried exactly k times.
FetchSurvivesThreeFailures ==
  LET k == LeadingFailures(feed, 1) IN
    (fetched # NotFetched /\ k <= 3 /\ k < Len(feed)) => ReturnsRow(k)

\* C7 amended: after k <= 2 failures followed by a success fetch_price returns
\* the success value, having retried exactly k times; after 3 failures it
\* returns (None, None); it never raises and never makes more than 3 calls.
FetchRetryContract ==
  LET k == LeadingFailures(feed, 1) IN
    fetched # NotFetched =>
      /\ ~fetched.raised
      /\ fetched.calls <= 3
      /\ (k <= 2 /\ k < Len(feed)) => ReturnsRow(k)
      /\ k >= 3 => /\ fetched.timestamp = None
                   /\ fetched.price = None
                   /\ fetched.calls = 3

\* An error, then an empty frame, then a row: the third call's row is returned.
FetchedOnThirdCall ==
  /\ feed[1].kind = "raise"
  /\ feed[2].kind = "empty"
  /\ feed[3].kind = "row"
  /\ fetched.calls = 3
  /\ fetched.price = Some(feed[3].price)

\* C8: the stored history of a symbol is the last min(n, 50) of the n rows
\* appended to it, in insertion order.
HistoryIsLastFifty ==
  \A s \in Symbols :
    LET n == Len(appended[s])
        m == IF n < 50 THEN n ELSE 50
    IN /\ Len(data[s]) = m
       /\ \A i \in 1..m : data[s][i] = appended[s][n - m + i]

\* 52 rows were appended: the two oldest are gone, the first of them a row
\* that differs from the one now stored first.
OldestEvicted ==
  \E s \in Symbols :
    /\ Len(appended[s]) = 52
    /\ Len(data[s]) = 50
    /\ data[s][1] = appended[s][3]
    /\ data[s][1] # appended[s][1]

\* C9: the rows of every symbol's history are non-decreasing in timestamp.
TimestampsNonDecreasing ==
  \A s \in Symbols :
    \A i \in 1..Len(data[s]), j \in 1..Len(data[s]) :
      i < j => data[s][i].timestamp <= data[s][j].timestamp

\* C10: an iteration whose fetch is unavailable changes neither the history,
\* the alert list, the status text, the chart nor the running flag; it goes
\* on to its sleep, back to the loop test and, while running, to the next
\* fetch.
UnavailableIsNoOp ==
  [][\A t \in ThreadIds :
       /\ (pc[t] = "fetch" /\ pc'[t] # "fetch" /\ ~loc'[t].price.some) =>
            /\ pc'[t] = "sleep"
            /\ UNCHANGED <<data, appended, alerts_list, status_var, chart,
                           running>>
       /\ (pc[t] = "sleep" /\ pc'[t] # "sleep" /\ ~loc[t].price.some) =>
            /\ pc'[t] = "while"
            /\ UNCHANGED <<data, appended, alerts_list, status_var, chart,
                           running>>
       /\ (pc[t] = "while" /\ pc'[t] # "while" /\ running
             /\ loc[t].symbol # "") => pc'[t] = "fetch"]_vars

\* The second iteration of a session found no price; the first one's row and
\* status text are still there.
UnavailableAfterPrice ==
  \E t \in ThreadIds :
    /\ pc[t] = "sleep"
    /\ ~loc[t].price.some
    /\ running
    /\ status_var = StatusMonitoring(loc[t].symbol, 3)
    /\ Len(data[loc[t].symbol]) = 1


\* C14: once root.destroy() has run, stop_monitoring has returned and no
\* monitoring thread is alive, so none can touch the widgets afterwards.
DestroyedAfterJoin == destroyed => (~running /\ \A t \in ThreadIds : ~Alive(t))

\* The window was closed during a session that had appended a row.
ClosedAfterWork ==
  /\ destroyed
  /\ thread # 0
  /\ data["A"] # <<>>

\* The failed calls among the first n responses of f.
FailedCalls(f, n) == {i \in 1..n : f[i].kind # "row"}

\* C15: every failed attempt of fetch_price, an error or an empty frame, is
\* logged, and a 2-second wait follows exactly the failed attempts that are
\* followed by another attempt.
EveryFailureLoggedAndWaited ==
  fetched # NotFetched =>
    /\ fetched.logged = Cardinality(FailedCalls(feed, fetched.calls))
    /\ fetched.slept =
         Cardinality({i \in FailedCalls(feed, fetched.calls) :
                        i < fetched.calls})

\* C16: the thresholds map is written only while no monitoring thread is
\* alive: a start_monitoring issued during a session records its thresholds
\* after the previous thread has ended.
ThresholdsWrittenWhenQuiet ==
  [][thresholds' # thresholds => \A t \in ThreadIds : ~Alive(t)]_vars

\* C17: whenever start_monitoring has returned to the main loop and running
\* is true, a monitoring thread is alive.
RunningImpliesAlive ==
  (running /\ fgpc = "mainloop") => \E t \in ThreadIds : Alive(t)

\* C18 as stated: when the status text is published the chart already shows
\* the row of this iteration (the chart is rendered before the status).
ChartBeforeStatus ==
  [][\A t \in ThreadIds :
       (pc[t] = "status" /\ pc'[t] # "status") =>
         /\ chart.symbol = loc[t].symbol
         /\ chart.series = data[loc[t].symbol]]_vars

\* C18 amended: an iteration that obtained a price appends the row, evaluates
\* the upper and the lower threshold on that price, publishes the status text
\* with that price and then renders the chart; every iteration ends with its
\* sleep, after which the loop test is next.
IterationOrder ==
  [][\A t \in ThreadIds :
       LET sym == loc[t].symbol
           moved(from) == pc[t] = from /\ pc'[t] # from
       IN /\ moved("fetch") =>
               IF loc'[t].price.some THEN pc'[t] = "append"
                                     ELSE pc'[t] = "sleep"
          /\ moved("append") =>
               /\ pc'[t] = "upper"
               /\ data'[sym] # <<>>
               /\ data'[sym][Len(data'[sym])].price = loc[t].price.v
               /\ alerts_list' = alerts_list
          /\ moved("upper") =>
               /\ pc'[t] = "lower"
               /\ data' = data
               /\ \A i \in (Len(alerts_list) + 1)..Len(alerts_list') :
                    alerts_list'[i].price = loc[t].price.v
          /\ moved("lower") =>
               /\ pc'[t] = "status"
               /\ status_var' = status_var
               /\ chart' = chart
               /\ \A i \in (Len(alerts_list) + 1)..Len(alerts_list') :
                    alerts_list'[i].price = loc[t].price.v
          /\ moved("status") =>
               /\ pc'[t] = "chart"
               /\ status_var' = StatusMonitoring(sym, loc[t].price.v)
               /\ chart' = chart
          /\ moved("chart") =>
               /\ pc'[t] = "sleep"
               /\ chart'.symbol = sym
               /\ chart'.series = data[sym]
               /\ status_var' = status_var
          /\ moved("sleep") => pc'[t] = "while"
          /\ (pc'[t] = "while" /\ pc[t] # "while") =>
               pc[t] \in {"sleep", "readInterval"}]_vars

\* An iteration has published its price and is about to render the chart,
\* which still shows what the previous iteration drew.
StatusPublishedChartPending ==
  \E t \in ThreadIds :
    /\ pc[t] = "chart"
    /\ status_var = StatusMonitoring(loc[t].symbol, loc[t].price.v)
    /\ Len(data[loc[t].symbol]) = 2
    /\ Len(chart.series) = 1


\* The alerts of one kind raised for symbol s.
AlertsOf(s, kind) ==
  {i \in 1..Len(alerts_list) :
     alerts_list[i].symbol = s /\ alerts_list[i].kind = kind}

\* One session has been started, its thresholds have not been replaced and
\* its thread is not in the middle of an iteration.
OneSessionBetweenCycles ==
  /\ Created = 1
  /\ fgpc \in {"mainloop", "stopJoin"}
  /\ pc[1] \in {"while", "fetch", "sleep", "exitStatus", "exitStart",
                "exitStop", "dead"}

\* C13: alerts are not deduplicated: after the successful cycles of a session
\* there is one UPPER alert for every cycle whose price was above the
\* configured upper bound, and one LOWER alert for every cycle whose price
\* was below the configured lower bound.
OneAlertPerCrossingCycle ==
  OneSessionBetweenCycles =>
    \A s \in Symbols :
      /\ (thresholds[s].present /\ thresholds[s].upper.some) =>
           Cardinality(AlertsOf(s, "UPPER")) =
             Cardinality({i \in 1..Len(appended[s]) :
                            appended[s][i].price > thresholds[s].upper.v})
      /\ (thresholds[s].present /\ thresholds[s].lower.some) =>
           Cardinality(AlertsOf(s, "LOWER")) =
             Cardinality({i \in 1..Len(appended[s]) :
                            appended[s][i].price < thresholds[s].lower.v})


\* The log has grown and its first new entry is the alert line.
LogsAlert ==
  /\ Len(log') > Len(log)
  /\ SubSeq(log', 1, Len(log)) = log
  /\ log'[Len(log) + 1] = "INFO alert"

\* C11: every threshold crossing is recorded whatever becomes of the email:
\* whenever the threshold step of update_data runs with price > upper (price
\* < lower), the alert is appended to the alert list and logged, and the
\* thread goes on to the next step (the lower test, then the status update)
\* whether the email was sent, failed or was skipped for want of a
\* configuration.
CrossingAlwaysRecorded ==
  [][\A t \in ThreadIds :
       /\ (/\ pc[t] = "upper" /\ pc'[t] # "upper"
           /\ loc[t].upper.some /\ loc[t].price.v > loc[t].upper.v) =>
            (AddsAlert("UPPER") /\ LogsAlert /\ pc'[t] = "lower")
       /\ (/\ pc[t] = "lower" /\ pc'[t] # "lower"
           /\ loc[t].lower.some /\ loc[t].price.v < loc[t].lower.v) =>
            (AddsAlert("LOWER") /\ LogsAlert /\ pc'[t] = "status")]_vars


\* The steps of an iteration that work on the loop's symbol: the fetch, the
\* history append, the threshold tests, the status update and the chart.
TargetedPcs == {"fetch", "append", "upper", "lower", "status", "chart"}

\* C12: once start_monitoring has returned, every fetch, history append,
\* threshold evaluation and status update of the thread it launched is for
\* the symbol that this start_monitoring validated and recorded thresholds
\* for (after a start for A and a start for B: for B).
CycleTargetsValidatedSymbol ==
  (fgpc = "mainloop" /\ thread # 0 /\ pc[thread] \in TargetedPcs) =>
    loc[thread].symbol = validated

=============================================================================
